---- MODULE Spec2Model ----
(***************************************************************************)
(* Multi-effect evaporator solver of src/evaporateurs.py                   *)
(* (EvaporateurMultiple and simulation_evaporation_multi_effets) with the  *)
(* property functions of src/thermodynamique.py.                           *)
(*                                                                         *)
(* Numbers.  The program computes in IEEE doubles; the model computes in   *)
(* decimal fixed point on TLC's 32-bit integers.  Every quantity carries   *)
(* a scale (FS, XS, TS, ...): the integer v stands for the real v / scale. *)
(* Products and quotients go through MulDiv, which is exact on a double-   *)
(* width intermediate and rounds to nearest.  np.log and np.exp are        *)
(* computed by range reduction and series to about 1e-5.                   *)
(*                                                                         *)
(* Property backend.  CoolProp is an external library; the model takes     *)
(* the branch COOLPROP_AVAILABLE = False (thermodynamique.py:8-10), on     *)
(* which every property function evaluates its empirical correlation.      *)
(***************************************************************************)
EXTENDS Integers, Sequences, FiniteSets, TLC

\* ------------------------------------------------------------ scales
MaxInt == (2^30 - 1) + 2^30
FS == 10^2   \* flows L, V, F, m_steam: 0.01 kg/h
XS == 10^5   \* mass fractions x: 1e-5
TS == 10^3   \* temperatures: 0.001 degC
PS == 10^5   \* pressures: 1e-5 bar
LS == 10^5   \* logarithms and exponentials: 1e-5
HS == 10^2   \* latent heat: 0.01 kJ/kg
CS == 10^3   \* specific heat: 0.001 kJ/kg/K
QS == 10^2   \* duties Q: 0.01 kW
US == 10^1   \* heat-transfer coefficients: 0.1 W/m2/K
AS == 10^2   \* areas: 0.01 m2
RS == 10^9   \* thermal resistances 1/U, R_f: 1e-9 m2.K/W
ES == 10^6   \* relative errors and tolerances: 1e-6
FrS == 10^4  \* loss fraction pertes: 1e-4
EcS == 10^3  \* steam economy: 0.001

\* ------------------------------------------------------------ arithmetic
Abs(a) == IF a < 0 THEN -a ELSE a
Sgn(a) == IF a < 0 THEN -1 ELSE 1
Max(a, b) == IF a >= b THEN a ELSE b
Min(a, b) == IF a <= b THEN a ELSE b

\* <<q, r>> with a*b = q*c + r and 0 <= r < c, for a, b >= 0 and c > 0,
\* without forming a*b when it exceeds 32 bits (halving on b).
MDStep(h, a, odd, c) ==
    <<2 * h[1] + (IF odd THEN a \div c ELSE 0) + (2 * h[2] + (IF odd THEN a % c ELSE 0)) \div c,
      (2 * h[2] + (IF odd THEN a % c ELSE 0)) % c>>
RECURSIVE MD(_, _, _)
MD(a, b, c) ==
    IF b = 0 THEN <<0, 0>>
    ELSE IF a <= MaxInt \div b THEN <<(a * b) \div c, (a * b) % c>>
    ELSE MDStep(MD(a, b \div 2, c), a, (b % 2) = 1, c)

RoundQ(qr, c, sign) == sign * (IF 2 * qr[2] >= c THEN qr[1] + 1 ELSE qr[1])

\* a*b/c rounded to nearest, signs handled as in real arithmetic.
MulDiv(a, b, c) ==
    RoundQ(MD(Max(Abs(a), Abs(b)), Min(Abs(a), Abs(b)), Abs(c)), Abs(c),
           Sgn(a) * Sgn(b) * Sgn(c))

\* ln 2 at scale LS, the step of np.log's and np.exp's range reduction
Ln2 == 69315

\* z + z^3/3 + z^5/5 + ... + z^11/11, t the current odd power of z
RECURSIVE AtanhSum(_, _, _, _)
AtanhSum(t, z2, d, acc) ==
    IF d > 11 THEN acc
    ELSE AtanhSum(MulDiv(t, z2, LS), z2, d + 2, acc + MulDiv(t, z2, d * LS))

AtanhOf(z) == AtanhSum(z, MulDiv(z, z, LS), 3, z)

\* ln(m) = 2*atanh((m-1)/(m+1)) for m in [1, 2], scale LS.
LnSeries(m) == 2 * AtanhOf(MulDiv(m - LS, LS, m + LS))

\* np.log: ln(v/LS)*LS for v > 0, by halving or doubling v into [1, 2).
RECURSIVE LnRed(_, _)
LnRed(m, k) ==
    IF m >= 2 * LS THEN LnRed((m + 1) \div 2, k + 1)
    ELSE IF m < LS THEN LnRed(2 * m, k - 1)
    ELSE k * Ln2 + LnSeries(m)
Ln(v) == LnRed(v, 0)

\* 1 + r + r^2/2! + ... + r^8/8!, t the current term
RECURSIVE ExpSum(_, _, _, _)
ExpSum(t, r, d, acc) ==
    IF d > 8 THEN acc
    ELSE ExpSum(MulDiv(t, r, d * LS), r, d + 1, acc + MulDiv(t, r, d * LS))

Scale2(s, k) == IF k >= 0 THEN s * 2^k ELSE IF -k < 31 THEN s \div 2^(-k) ELSE 0

ExpRed(y, k) == Scale2(ExpSum(LS, y - k * Ln2, 1, LS), k)

\* np.exp: exp(y/LS)*LS, y = k*ln2 + r with r in [0, ln2), Taylor series in r.
Exp(y) == ExpRed(y, y \div Ln2)

\* ------------------------------------------------------------ property functions
\* Tsat_water_from_Pbar: 100 + 28*ln(max(P, 0.01)), degC.
Tsat_water_from_Pbar(Pbar) ==
    100 * TS + MulDiv(28 * TS, Ln(Max(Pbar, PS \div 100)), LS)

\* latent_heat_kJkg: max(2500 - 2.42*T, 100), kJ/kg.
latent_heat_kJkg(Tc) ==
    Max(2500 * HS - MulDiv(242 * HS, Tc, 100 * TS), 100 * HS)

\* latent_heat_from_Pbar: the latent heat at the saturation temperature of P.
latent_heat_from_Pbar(Pbar) == latent_heat_kJkg(Tsat_water_from_Pbar(Pbar))

\* EPE_Duhring: 0 for x <= 0, else max(0.08*(1 + 0.004*T) * x^1.2 * 100, 0);
\* x^1.2 is exp(1.2*ln x).
EPE_Duhring(xs, Tw) ==
    IF xs <= 0 THEN 0
    ELSE Max(MulDiv(8 * (TS + MulDiv(4, Tw, TS)), Exp(MulDiv(12, Ln(xs), 10)), LS), 0)

\* Cp_solution_saccharose: x*1.25 + (1 - x)*4.18, kJ/kg/K.
Cp_solution_saccharose(xs, Tc) ==
    MulDiv(xs, 1250, XS) + MulDiv(XS - xs, 4180, XS)

\* The interpolation taken over n_total steps for every chain, without the table
\* for three effects and without the end value.
coefficient_U_steps(effet, n_total) ==
    2500 * US - MulDiv(700 * US, effet - 1, Max(n_total, 1))

\* coefficient_U_effet: 2500, 2200, 1800 for three effects, else the linear
\* profile from 2500 (effect 1) to 1800 (effect n_total).
coefficient_U_effet(effet, n_total) ==
    IF n_total = 3
    THEN (CASE effet = 1 -> 2500 * US
            [] effet = 2 -> 2200 * US
            [] OTHER     -> 1800 * US)
    ELSE IF effet <= 1 THEN 2500 * US
    ELSE IF effet >= n_total THEN 1800 * US
    ELSE 2500 * US - MulDiv(700 * US, effet - 1, Max(n_total - 1, 1))

\* ------------------------------------------------------------ program constants
DefaultPFinal == 15000          \* P_final = 0.15 bar
DefaultSurchauffe == 10000      \* surchauffe_steam = 10.0 degC
DefaultPertes == 300            \* pertes_thermiques = 0.03
DefaultREncrassement == 200000  \* R_encrassement = 0.0002 m2.K/W
DefaultMaxIter == 50            \* simuler(max_iter=50)
DefaultTol == 100               \* simuler(tol=1e-4)
WrapperTSteam == 143000         \* T_steam_C = 143.0
WrapperTLast == 54000           \* T_last_C = 54.0
WrapperTFeed == 85000           \* T_feed = 85.0
FallbackEconomie == 3000        \* "economie": 3.0
FallbackATotal == 30000         \* "A_total": 300.0
FallbackAEffet == 10000         \* "A_m2": 100.0
FallbackDT == 20000             \* "dT_K": 20.0

\* ------------------------------------------------------------ bounds and inputs
MaxEffets == 4
MaxIter == 3

FSet == {0, 20000 * FS}
\* <<xF, xout>>: the reference pair, a mild concentration, and two invalid pairs.
XPairs == {<<15000, 65000>>, <<15000, 16000>>, <<65000, 15000>>, <<15000, 15000>>}
NSet == 0..MaxEffets
TFeedSet == {85 * TS, 140 * TS}
\* 3.5 bar, and 0.1 bar (not above the condenser pressure)
PSteamSet == {350000, 20000, 10000}
TolSet == {DefaultTol, 160000}
\* simuler() with its defaults, or simuler(max_iter, tol)
SimulerArgs == {<<DefaultMaxIter, DefaultTol>>} \cup ((1..MaxIter) \X TolSet)

WrittenFields == {"V", "x"}
None == <<>>
IsNone(v) == DOMAIN v = {}

VARIABLES
    pc,        \* "idle", "constructed", "loop", "after_loop", "returned", "raised",
               \* "mutated" (the caller wrote into the returned record)
    entry,     \* "none", "direct" (EvaporateurMultiple + simuler), "wrapper"
    ctor,      \* outcome of EvaporateurMultiple.__init__: "none", "ok", "ValueError"
    exc,       \* exception that reached the caller: "none", "ValueError", ...
    cfg,       \* self.F, xF, xout, T_feed, P_steam, n_effets, P_final, ...
    L, V, x, T, P, A, Q, U,   \* self.L ... self.U: None or one entry per effect
    m_steam,   \* self.m_steam: None or <<value>>
    max_iter, tol,            \* arguments of simuler
    iteration, \* loop variable of simuler (0-based index of the last iteration run)
    executed,  \* number of loop bodies executed
    V_old,     \* V_old of the last iteration run
    erreur,    \* erreur of the last iteration run
    broke,     \* the loop was left by break
    res,       \* record returned by simuler, or None
    wres,      \* record returned by simulation_evaporation_multi_effets, or None
    shared,    \* keys of the last returned record whose array is the object's own
    earlier,   \* the record an earlier call of simuler returned (the caller's object)
    first,     \* what the first call of simuler returned, as it was returned
    crpc,      \* simuler_cristallisation_batch: "idle" before the call, "done" after
    crargs,    \* its arguments, or None
    hist,      \* the historique it returned, or None
    L_grid,    \* the size grid it returned, or None
    n_dist     \* the number density it returned, or None

evapvars == <<pc, entry, ctor, exc, cfg, L, V, x, T, P, A, Q, U, m_steam, max_iter, tol,
              iteration, executed, V_old, erreur, broke, res, wres, shared, earlier,
              first>>
crvars == <<crpc, crargs, hist, L_grid, n_dist>>
vars == <<evapvars, crvars>>

results == <<L, V, x, T, P, A, Q, U, m_steam>>
loopvars == <<max_iter, tol, iteration, executed, V_old, erreur, broke>>
callvars == <<shared, earlier, first>>

Init ==
    /\ pc = "idle" /\ entry = "none" /\ ctor = "none" /\ exc = "none"
    /\ cfg = None
    /\ L = None /\ V = None /\ x = None /\ T = None /\ P = None
    /\ A = None /\ Q = None /\ U = None /\ m_steam = None
    /\ max_iter = 0 /\ tol = 0 /\ iteration = 0 /\ executed = 0
    /\ V_old = None /\ erreur = 0 /\ broke = FALSE
    /\ res = None /\ wres = None
    /\ shared = {} /\ earlier = None /\ first = None
    /\ crpc = "idle" /\ crargs = None /\ hist = None
    /\ L_grid = None /\ n_dist = None

\* ------------------------------------------------------------ EvaporateurMultiple
\* The checks with a strict comparison: xout = xF is let through.
ConfigRejectedStrict(c) == c.xout < c.xF \/ c.n_effets < 1

\* __init__, the checks: xout <= xF or n_effets < 1 raise ValueError.
ConfigRejected(c) == c.xout <= c.xF \/ c.n_effets < 1

MakeConfig(F, xF, xout, T_feed, P_steam, n_effets, P_final) ==
    [F |-> F, xF |-> xF, xout |-> xout, T_feed |-> T_feed, P_steam |-> P_steam,
     n_effets |-> n_effets, P_final |-> P_final, surchauffe |-> DefaultSurchauffe,
     pertes |-> DefaultPertes, R_f |-> DefaultREncrassement]

\* evap = EvaporateurMultiple(F, xF, xout, T_feed, P_steam, n_effets)
Construct(F, xF, xout, T_feed, P_steam, n_effets) ==
    /\ pc = "idle"
    /\ entry' = "direct"
    /\ \E c \in {MakeConfig(F, xF, xout, T_feed, P_steam, n_effets, DefaultPFinal)} :
        /\ cfg' = c
        /\ IF ConfigRejected(c)
           THEN pc' = "raised" /\ ctor' = "ValueError" /\ exc' = "ValueError"
           ELSE pc' = "constructed" /\ ctor' = "ok" /\ exc' = exc
    /\ UNCHANGED <<results, loopvars, res, wres, callvars, crvars>>

\* The slice taken from the wrong end: points 0..n-1 (P_effets[:-1]).
LogSpacedFromSteam(n, a, b) == [i \in 1..n |-> Exp(a + MulDiv(i - 1, b - a, n))]

\* _calculer_pressions: exp of n+1 equally spaced points between ln(P_steam) and
\* ln(P_final); the effects take points 1..n.
LogSpaced(n, a, b) == [i \in 1..n |-> Exp(a + MulDiv(i, b - a, n))]
calculer_pressions(c) == LogSpaced(c.n_effets, Ln(c.P_steam), Ln(c.P_final))

\* _bilan_matiere_global: <<L_final, V_total>>.
\* The balance with V_total taken as the whole feed.
MassBalanceNoProduct(F, L_final) == <<L_final, F>>

MassBalance(F, L_final) == <<L_final, F - L_final>>
bilan_matiere_global(c) == MassBalance(c.F, MulDiv(c.F, c.xF, c.xout))

\* The guard testing only for zero: if L[i] != 0.
SoluteBalanceNonZero(L_in, x_in, Li) == IF Li # 0 THEN MulDiv(L_in, x_in, Li) ELSE x_in

\* x[i] = L_in*x_in/L[i] if L[i] > 0, else x_in
SoluteBalance(L_in, x_in, Li) == IF Li > 0 THEN MulDiv(L_in, x_in, Li) ELSE x_in

\* The stage-to-stage propagation shared by seeding and by each iteration:
\* L[i] = L_in - V[i], then the solute balance, L[i] and x[i] feeding effect i+1.
RECURSIVE ChainL(_, _, _)
ChainL(c, Vs, i) == IF i = 0 THEN c.F ELSE ChainL(c, Vs, i - 1) - Vs[i]
RECURSIVE ChainX(_, _, _)
ChainX(c, Vs, i) ==
    IF i = 0 THEN c.xF
    ELSE SoluteBalance(ChainL(c, Vs, i - 1), ChainX(c, Vs, i - 1), ChainL(c, Vs, i))

Propagate(c, Vs) ==
    [V |-> Vs,
     L |-> [i \in 1..c.n_effets |-> ChainL(c, Vs, i)],
     x |-> [i \in 1..c.n_effets |-> ChainX(c, Vs, i)]]

\* V_par_effet = V_total / n_effets for every effect
UniformSplit(n, V_par_effet) == [i \in 1..n |-> V_par_effet]

\* _initialiser_debits: uniform split of V_total, then the propagation.
initialiser_debits(c) ==
    Propagate(c, UniformSplit(c.n_effets, MulDiv(bilan_matiere_global(c)[2], 1, c.n_effets)))

\* T_eb = T_sat + EPE(x, T_sat)
BoilingT(T_sat, xi) == T_sat + EPE_Duhring(xi, T_sat)

\* _calculer_temperatures
calculer_temperatures(c, Ps, xs) ==
    [i \in 1..c.n_effets |-> BoilingT(Tsat_water_from_Pbar(Ps[i]), xs[i])]

\* Q_sensible = L_in * Cp_moy * (T[i] - T_in) / 3600, with Cp_moy the mean of the
\* inlet and outlet specific heats.
QSensible(L_in, Cp_in, Cp_out, dT) ==
    MulDiv(MulDiv(L_in, (Cp_in + Cp_out) \div 2, CS), dT, 3600 * TS)

\* Q_evap = V[i] * lambda_evap / 3600
QEvap(Vi, lambda_evap) == MulDiv(Vi, lambda_evap, 3600 * HS)

\* The duty without the heat losses.
WithoutLosses(Q_utile, pertes) == Q_utile

\* Q[i] = Q_utile + pertes * Q_utile
WithLosses(Q_utile, pertes) == Q_utile + MulDiv(Q_utile, pertes, FrS)

\* The inlet of effect i: the feed for the first effect, else the previous effect.
InletT(c, Ts, i) == IF i = 1 THEN c.T_feed ELSE Ts[i - 1]
InletX(c, xs, i) == IF i = 1 THEN c.xF ELSE xs[i - 1]
InletL(c, Ls, i) == IF i = 1 THEN c.F ELSE Ls[i - 1]

DutyFrom(c, L_in, x_in, T_in, xi, Ti, Vi, Pi) ==
    WithLosses(QSensible(L_in, Cp_solution_saccharose(x_in, T_in),
                         Cp_solution_saccharose(xi, Ti), Ti - T_in)
               + QEvap(Vi, latent_heat_from_Pbar(Pi)),
               c.pertes)

\* _calculer_bilans_energetiques, the duty of effect i (kW).
DutyQ(c, Ps, Ts, Ls, Vs, xs, i) ==
    DutyFrom(c, InletL(c, Ls, i), InletX(c, xs, i), InletT(c, Ts, i),
             xs[i], Ts[i], Vs[i], Ps[i])

\* dT_chauffe, replaced by 1.0 when it is <= 0
FloorDT(dT_chauffe) == IF dT_chauffe <= 0 THEN 1 * TS ELSE dT_chauffe

\* The driving temperature difference of effect i: heating side (motive steam with
\* its superheat for the first effect, else the previous effect) minus boiling
\* temperature.
DrivingDT(c, Ts, i) ==
    FloorDT((IF i = 1 THEN Tsat_water_from_Pbar(c.P_steam) + c.surchauffe ELSE Ts[i - 1])
            - Ts[i])

\* U_eff = 1/(1/U + R_f)
UEff(c, Ui) == MulDiv(LS, (RS \div LS) * US, MulDiv(RS \div 1000, 1000 * US, Ui) + c.R_f)

\* A[i] = Q[i]*1000 / (U_eff * dT_chauffe)
AreaA(c, Qi, Ui, dT) == MulDiv(MulDiv(Qi, 1000 * US, UEff(c, Ui)), TS, dT)

AreasFrom(c, Ts, Qs, Us) ==
    [Q |-> Qs, U |-> Us,
     A |-> [i \in 1..c.n_effets |-> AreaA(c, Qs[i], Us[i], DrivingDT(c, Ts, i))]]

calculer_bilans_energetiques(c, Ps, Ts, Ls, Vs, xs) ==
    AreasFrom(c, Ts,
              [i \in 1..c.n_effets |-> DutyQ(c, Ps, Ts, Ls, Vs, xs, i)],
              [i \in 1..c.n_effets |-> coefficient_U_effet(i, c.n_effets)])

\* _calculer_consommation_vapeur: m_steam = Q[0]*3600/lambda_steam.
calculer_consommation_vapeur(c, Qs) ==
    MulDiv(Qs[1], 3600 * HS, latent_heat_from_Pbar(c.P_steam))

RECURSIVE SeqSum(_)
SeqSum(s) == IF Len(s) = 0 THEN 0 ELSE s[1] + SeqSum(Tail(s))

\* One entry of np.abs(V - V_old) / (V_old + 1e-12).  The quotient keeps the sign of
\* V_old.  With V_old = 0 the divisor is 1e-12: 0 for an unchanged flow and beyond
\* every tolerance otherwise; quotients beyond the integer range are held at its end.
RelChange(vn, vo) ==
    IF vo = 0 THEN (IF vn = vo THEN 0 ELSE MaxInt)
    ELSE IF Abs(vn - vo) \div Abs(vo) >= 2000 THEN Sgn(vo) * MaxInt
    ELSE MulDiv(Abs(vn - vo), ES, vo)

RECURSIVE SeqMax(_)
SeqMax(s) == IF Len(s) = 1 THEN s[1] ELSE Max(s[1], SeqMax(Tail(s)))

RECURSIVE SeqMin(_)
SeqMin(s) == IF Len(s) = 1 THEN s[1] ELSE Min(s[1], SeqMin(Tail(s)))

\* The error taken as the smallest relative change instead of the largest.
ErreurMin(Vn, Vo) == SeqMin([i \in 1..Len(Vn) |-> RelChange(Vn[i], Vo[i])])

\* erreur = np.max(np.abs(self.V - V_old) / (V_old + 1e-12))
Erreur(Vn, Vo) == SeqMax([i \in 1..Len(Vn) |-> RelChange(Vn[i], Vo[i])])

\* The duty taken per second: the factor 3600 left out.
VaporPerSecond(Qi, Pi) == MulDiv(Qi, HS, latent_heat_from_Pbar(Pi))

\* V[i] = Q[i]*3600/lambda_i
VaporFromDuty(Qi, Pi) == MulDiv(Qi, 3600 * HS, latent_heat_from_Pbar(Pi))

\* simuler, steps 1 and 2: pressures, then seeding.
\* The flows _initialiser_debits of a warm start would leave: those of the object
\* when it has some.
WarmFlows == IF V = None THEN initialiser_debits(cfg) ELSE [V |-> V, L |-> L, x |-> x]

\* simuler, line 304: the flows are seeded afresh from the configuration.
SeededFlows == initialiser_debits(cfg)

\* simuler up to the loop: new P, new L, V, x, and the loop's locals not yet set.
SimulerStart(mi, tl) ==
    /\ max_iter' = mi /\ tol' = tl
    /\ P' = calculer_pressions(cfg)
    /\ \E seed \in {SeededFlows} :
          L' = seed.L /\ V' = seed.V /\ x' = seed.x
    /\ pc' = "loop"
    /\ iteration' = 0 /\ executed' = 0 /\ V_old' = None /\ erreur' = 0 /\ broke' = FALSE
    /\ UNCHANGED <<entry, ctor, exc, cfg, T, A, Q, U, m_steam, wres, crvars>>

\* The first call of simuler on the object; the wrapper calls it with the defaults.
Simuler(mi, tl) ==
    /\ pc = "constructed"
    /\ entry = "wrapper" => <<mi, tl>> = <<DefaultMaxIter, DefaultTol>>
    /\ SimulerStart(mi, tl)
    /\ UNCHANGED <<res, callvars>>

\* The same call made again on the same object, the caller keeping the record of
\* the first.  P, L, V and x are bound to new arrays, so the earlier record stops
\* sharing them.
SimulerAgain ==
    /\ pc \in {"returned", "mutated"}
    /\ entry = "direct" /\ ~IsNone(res) /\ IsNone(earlier)
    /\ SimulerStart(max_iter, tol)
    /\ earlier' = res /\ res' = None
    /\ shared' = shared \ {"P", "L", "V", "x"}
    /\ first' = first

\* The test that leaves the loop.
Converged(err, tl) == err < tl

\* The loop body of simuler, from the state it reads to the state it leaves:
\* temperatures, energy balances, V from Q, L and x from V, erreur.
BodyFromV(c, Vo, Ts, eb, flows) ==
    [T |-> Ts, Q |-> eb.Q, A |-> eb.A, U |-> eb.U,
     V |-> flows.V, L |-> flows.L, x |-> flows.x, erreur |-> Erreur(flows.V, Vo)]
BodyFromQ(c, Ps, Vo, Ts, eb) ==
    BodyFromV(c, Vo, Ts, eb,
              Propagate(c, [i \in 1..c.n_effets |-> VaporFromDuty(eb.Q[i], Ps[i])]))
BodyFromT(c, Ps, Ls, Vs, xs, Ts) ==
    BodyFromQ(c, Ps, Vs, Ts, calculer_bilans_energetiques(c, Ps, Ts, Ls, Vs, xs))
LoopBody(c, Ps, Ls, Vs, xs) ==
    BodyFromT(c, Ps, Ls, Vs, xs, calculer_temperatures(c, Ps, xs))

\* What the loop's writes into self.L, self.V, self.x (lines 322-334) do to a record
\* that holds the same arrays; T, Q, A, U are new arrays in each iteration.
InPlace(rec, sh, b) ==
    IF IsNone(rec) THEN rec
    ELSE [f \in DOMAIN rec |-> IF f \in sh \cap {"L", "V", "x"} THEN b[f] ELSE rec[f]]

\* simuler, one pass of the loop: the body, then break on convergence or the end of
\* range(max_iter).
Iterate ==
    /\ pc = "loop"
    /\ executed < max_iter
    /\ iteration' = executed
    /\ executed' = executed + 1
    /\ V_old' = V
    /\ \E b \in {LoopBody(cfg, P, L, V, x)} :
          /\ T' = b.T /\ Q' = b.Q /\ A' = b.A /\ U' = b.U
          /\ V' = b.V /\ L' = b.L /\ x' = b.x
          /\ erreur' = b.erreur
          /\ broke' = Converged(b.erreur, tol)
          /\ pc' = IF Converged(b.erreur, tol) \/ executed + 1 = max_iter
                   THEN "after_loop" ELSE "loop"
          /\ earlier' = InPlace(earlier, shared, b)
    /\ shared' = shared \ {"T", "Q", "A", "U"}
    /\ UNCHANGED <<entry, ctor, exc, cfg, P, m_steam, max_iter, tol, res, wres, first,
                   crvars>>

\* economie_vapeur(): 0.0 when m_steam is None or 0, else sum(V)/m_steam.
economie_vapeur(Vs, ms) ==
    IF ms = None \/ ms = <<0>> THEN 0 ELSE MulDiv(SeqSum(Vs), EcS, ms[1])

\* The loop index reported as it stands, without the + 1.
ReportedIndex(it) == it

\* The iteration count simuler reports.
ReportedIterations(it) == it + 1

\* The dict simuler returns; "x" is in percent.
SimulerRecord(ms) ==
    [L |-> L, V |-> V, x |-> [i \in 1..Len(x) |-> x[i] * 100], T |-> T, P |-> P,
     A |-> A, Q |-> Q, U |-> U, m_steam |-> ms, A_totale |-> SeqSum(A),
     iterations |-> ReportedIterations(iteration)]

\* "details" of the wrapper's record on its rigorous path.
WrapperDetails(r, n) ==
    [i \in 1..n |->
        [effect |-> i, V_kg_h |-> r.V[i],
         dT_K |-> r.T[i] - (IF i > 1 THEN r.T[i - 1] ELSE WrapperTFeed),
         A_m2 |-> r.A[i], T_hot_C |-> r.T[i], T_cold_C |-> r.T[i] - 5 * TS]]

WrapperRecord(c, r) ==
    [S |-> r.m_steam, economie |-> economie_vapeur(r.V, <<r.m_steam>>),
     A_total |-> r.A_totale, V_total |-> SeqSum(r.V), P |-> MulDiv(c.F, c.xF, c.xout),
     details |-> WrapperDetails(r, c.n_effets)]

\* The values of the returned dict that are the object's arrays themselves (lines
\* 350-357); "x" is the new array self.x * 100.
AliasedFields == {"L", "V", "T", "P", "A", "Q", "U"}

\* simuler, after the loop: steam consumption, then the returned record; the wrapper
\* goes on to format its own record from it.
Return ==
    /\ pc = "after_loop"
    /\ \E r \in {SimulerRecord(calculer_consommation_vapeur(cfg, Q))} :
          /\ m_steam' = <<r.m_steam>>
          /\ res' = r
          /\ wres' = IF entry = "wrapper" THEN WrapperRecord(cfg, r) ELSE wres
          /\ first' = IF IsNone(first) THEN r ELSE first
    /\ shared' = AliasedFields
    /\ pc' = "returned"
    /\ UNCHANGED <<entry, ctor, exc, cfg, L, V, x, T, P, A, Q, U, loopvars, earlier,
                   crvars>>

\* The caller writes 0.0 into element 0 of one array of the record it was returned:
\* res[f][0] = 0.0.  An array the record shares with the object is the object's.
Mutate(f) ==
    /\ pc = "returned" /\ entry = "direct" /\ ~IsNone(res)
    /\ res' = [res EXCEPT ![f] = [@ EXCEPT ![1] = 0]]
    /\ V' = IF f = "V" /\ f \in shared THEN [V EXCEPT ![1] = 0] ELSE V
    /\ x' = IF f = "x" /\ f \in shared THEN [x EXCEPT ![1] = 0] ELSE x
    /\ pc' = "mutated"
    /\ UNCHANGED <<entry, ctor, exc, cfg, L, T, P, A, Q, U, m_steam, loopvars, wres,
                   callvars, crvars>>

\* The wrapper's except branch: the closed-form estimate.
FallbackFrom(V_total, Pp, V_i, n) ==
    [S |-> MulDiv(V_total, 1, 3), economie |-> FallbackEconomie,
     A_total |-> FallbackATotal, V_total |-> V_total, P |-> Pp,
     details |-> [i \in 1..n |->
         [effect |-> i, V_kg_h |-> V_i, dT_K |-> FallbackDT, A_m2 |-> FallbackAEffet,
          T_hot_C |-> WrapperTSteam - i * 20 * TS,
          T_cold_C |-> WrapperTSteam - i * 20 * TS - 5 * TS]]]
FallbackSplit(F, Pp, n) == FallbackFrom(F - Pp, Pp, MulDiv(F - Pp, 1, n), n)
FallbackRecord(F, xF, xout, n) == FallbackSplit(F, MulDiv(F, xF, xout), n)

\* P(bar) = exp((T - 100)/28), the wrapper's conversion of a temperature.
WrapperPressure(Tc, floor) == Max(Exp(MulDiv(Tc - 100 * TS, LS, 28 * TS)), floor)

WrapperConfig(F, xF, xout, n_effets) ==
    MakeConfig(F, xF, xout, WrapperTFeed, WrapperPressure(WrapperTSteam, 1 * PS),
               n_effets, WrapperPressure(WrapperTLast, PS \div 100))

\* simulation_evaporation_multi_effets(F_kg_h, xF, xout, n_effets): the try block up
\* to the constructor; a ValueError there is caught by "except Exception", whose
\* branch returns the estimate, or fails itself dividing by n_effets = 0.
WrapperCall(F, xF, xout, n_effets) ==
    /\ pc = "idle"
    /\ entry' = "wrapper"
    /\ \E c \in {WrapperConfig(F, xF, xout, n_effets)} :
        /\ cfg' = c
        /\ IF ConfigRejected(c)
           THEN /\ ctor' = "ValueError"
                /\ IF n_effets = 0
                   THEN pc' = "raised" /\ exc' = "ZeroDivisionError" /\ wres' = wres
                   ELSE pc' = "returned" /\ exc' = exc
                        /\ wres' = FallbackRecord(F, xF, xout, n_effets)
           ELSE pc' = "constructed" /\ ctor' = "ok" /\ exc' = exc /\ wres' = wres
    /\ UNCHANGED <<results, loopvars, res, callvars, crvars>>

Next ==
    \/ \E F \in FSet, xp \in XPairs, Tf \in TFeedSet, Ps \in PSteamSet, n \in NSet :
          Construct(F, xp[1], xp[2], Tf, Ps, n)
    \/ \E a \in SimulerArgs : Simuler(a[1], a[2])
    \/ SimulerAgain
    \/ Iterate
    \/ Return
    \/ \E f \in WrittenFields : Mutate(f)
    \/ \E F \in FSet, xp \in XPairs, n \in NSet : WrapperCall(F, xp[1], xp[2], n)

Spec == Init /\ [][Next]_vars

\* ------------------------------------------------------------ cristallisation
\* Scales of the crystallizer's quantities.
TmS == 10^3  \* times: 0.001 s
KS == 10^4   \* concentrations C, Cs: 1e-4 g/100g
SsS == 10^5  \* supersaturation: 1e-5
LmS == 10^8  \* mean size: 1e-8 m
CvS == 10^4  \* coefficient of variation: 1e-4

T_final == 35000          \* T_final = 35.0
LmeanStart == 2000        \* 20e-6 m
LmeanLineaire == 45000    \* 450e-6 m
LmeanExpo == 43500        \* 435e-6 m
LmeanSConst == 46500      \* 465e-6 m
CVStart == 1500           \* 0.15
CVLineaire == 2250        \* 0.225
CVExpo == 2500            \* 0.250
CVSConst == 2000          \* 0.200
SStart == 10000           \* 0.1
SEnd == 1000              \* 0.01
COffset == 50000          \* Cs + 5.0
DefaultDt == 300          \* dt=300

\* Durations that are multiples of DefaultDt go up to MaxBlocks of them.
MaxBlocks == 4
DureeSet == {100, 1000, 14400} \cup {DefaultDt * k : k \in 1..MaxBlocks}
DtSet == {60, DefaultDt}
TInitSet == {70 * TS, 50 * TS}
CInitSet == {65 * KS, 110 * KS}
ProfilSet == {"lineaire", "expo", "S_const", "autre"}
MBatchSet == {5000, 1000}

\* solubilite(T) = 64.18 + 0.1337*T + 5.52e-3*T**2 - 9.73e-6*T**3
Cubic(Tc, T2) ==
    6418 * (KS \div 100) + MulDiv(Tc, 1337, TS) + MulDiv(T2, 552, 10 * TS)
        - MulDiv(MulDiv(T2, Tc, TS), 973, 10000 * TS)
solubilite(Tc) == Cubic(Tc, MulDiv(Tc, Tc, TS))

\* np.linspace(a, b, n): n points from a to b inclusive; n = 1 gives a alone.
linspace(a, b, n) == [k \in 1..n |-> IF n = 1 THEN a ELSE a + MulDiv(b - a, k - 1, n - 1)]

\* Nt = int(duree_totale / dt) + 1
NtOf(duree, dt) == (duree \div dt) + 1

\* The ramp with the sign of the slope wrong: from T_final up to T_init.
RampReversed(T_init, t, duree) ==
    [k \in 1..Len(t) |-> T_final + MulDiv(T_init - T_final, t[k], duree * TmS)]

\* T = T_init - (T_init - T_final) * t / duree_totale, whatever the profile.
Ramp(T_init, t, duree) ==
    [k \in 1..Len(t) |-> T_init - MulDiv(T_init - T_final, t[k], duree * TmS)]

\* Only "S_const" taken for the last branch, any other name for the first.
LmeanUnknownAsLineaire(profil) ==
    IF profil = "expo" THEN LmeanExpo
    ELSE IF profil = "S_const" THEN LmeanSConst ELSE LmeanLineaire

Lmean_final(profil) ==
    IF profil = "lineaire" THEN LmeanLineaire
    ELSE IF profil = "expo" THEN LmeanExpo ELSE LmeanSConst
CV_final(profil) ==
    IF profil = "lineaire" THEN CVLineaire
    ELSE IF profil = "expo" THEN CVExpo ELSE CVSConst

\* The historique dict, from the arrays t and T.
HistFrom(t, Ts, Cs, Nt, profil) ==
    [t |-> t, T |-> Ts, S |-> linspace(SStart, SEnd, Nt),
     C |-> [k \in 1..Nt |-> Cs[k] + COffset], Cs |-> Cs,
     Lmean |-> linspace(LmeanStart, Lmean_final(profil), Nt),
     CV |-> linspace(CVStart, CV_final(profil), Nt)]
HistFromT(t, Ts, Nt, profil) ==
    HistFrom(t, Ts, [k \in 1..Nt |-> solubilite(Ts[k])], Nt, profil)
HistFromTime(T_init, duree, t, Nt, profil) ==
    HistFromT(t, Ramp(T_init, t, duree), Nt, profil)
historique(T_init, duree, dt, profil) ==
    HistFromTime(T_init, duree, linspace(0, duree * TmS, NtOf(duree, dt)),
                 NtOf(duree, dt), profil)

\* ---- final size distribution (sizes in micrometres at scale LS, density in 1e4 /m)
LGridMin == 10000
LGridMax == 100000000
LGridN == 100
NdPeak == 1000000
Sqrt2Pi == 250663

\* Integer square root by bisection: the largest r in lo..hi with r*r <= n.
RECURSIVE SqrtIn(_, _, _)
SqrtIn(n, lo, hi) ==
    IF lo >= hi THEN lo
    ELSE IF ((lo + hi + 1) \div 2) * ((lo + hi + 1) \div 2) <= n
         THEN SqrtIn(n, (lo + hi + 1) \div 2, hi)
         ELSE SqrtIn(n, lo, ((lo + hi + 1) \div 2) - 1)
\* np.sqrt of a value at scale LS, at scale LS
Sqrt(v) == SqrtIn(v * LS, 0, 46340)

\* sigma**2 = np.log(1 + CV_final**2)
Sigma2(cv) == Ln(LS + MulDiv(cv * (LS \div CvS), cv * (LS \div CvS), LS))
\* mu = np.log(Lmean_final) - sigma**2 / 2, Lmean_final in micrometres
Mu(lm, s2) == Ln(lm * (LS \div 100)) - MulDiv(s2, 1, 2)

\* np.exp(-(np.log(L_grid) - mu)**2 / (2 * sigma**2))
Kernel(z, s2) == Exp(-MulDiv(MulDiv(z, z, LS), LS, 2 * s2))
\* ... / (L_grid * sigma * np.sqrt(2 * np.pi)), in 1e-4 per micrometre
Density(Lg, mu, s2, sigma) ==
    MulDiv(Kernel(Ln(Lg) - mu, s2), LS * 10^4, MulDiv(MulDiv(Lg, sigma, LS), Sqrt2Pi, LS))
RawDist(grid, mu, s2) ==
    [k \in 1..Len(grid) |-> Density(grid[k], mu, s2, Sqrt(s2))]
\* The density taken relative to its peak: (n_dist - max) / max * 1e10.
NormaliseOffset(raw, peak) ==
    [k \in 1..Len(raw) |-> MulDiv(raw[k] - peak, NdPeak, peak)]
\* n_dist = n_dist / np.max(n_dist) * 1e10
Normalise(raw, peak) == [k \in 1..Len(raw) |-> MulDiv(raw[k], NdPeak, peak)]
\* np.max of an array
ArrMax(s) == CHOOSE m \in {s[k] : k \in DOMAIN s} : \A k \in DOMAIN s : s[k] <= m
NDistOn(grid, lm, s2) == \* the density on a grid, for a final size and sigma**2
    \E raw \in {RawDist(grid, Mu(lm, s2), s2)} : n_dist' = Normalise(raw, ArrMax(raw))
n_dist_of(profil) == \* assigns the returned n_dist
    NDistOn(linspace(LGridMin, LGridMax, LGridN), Lmean_final(profil),
            Sigma2(CV_final(profil)))

\* L_grid, n_dist, hist = simuler_cristallisation_batch(M_batch, C_init, T_init,
\*                                                      duree_totale, dt, profil)
Cristalliser(M_batch, C_init, T_init, duree, dt, profil) ==
    /\ crpc = "idle"
    /\ crargs' = [M_batch |-> M_batch, C_init |-> C_init, T_init |-> T_init,
                  duree_totale |-> duree, dt |-> dt, profil |-> profil]
    /\ hist' = historique(T_init, duree, dt, profil)
    /\ L_grid' = linspace(LGridMin, LGridMax, LGridN)
    /\ n_dist_of(profil)
    /\ crpc' = "done"
    /\ UNCHANGED evapvars

CrNext ==
    \E M \in MBatchSet, Ci \in CInitSet, Ti \in TInitSet, d \in DureeSet, dt \in DtSet,
       pr \in ProfilSet : Cristalliser(M, Ci, Ti, d, dt, pr)

CrSpec == Init /\ [][CrNext]_vars

\* ------------------------------------------------------------ properties
\* The inputs section 4.2 of the specification calls valid.
Valid(c) ==
    /\ c.F > 0
    /\ 0 < c.xF /\ c.xF < c.xout /\ c.xout < XS
    /\ c.n_effets >= 1
    /\ c.P_final > 0 /\ c.P_steam > c.P_final

Seeded == pc \in {"loop", "after_loop", "returned"} /\ ~IsNone(L)

\* Stage 0 is the feed.
PrevL(i) == IF i = 1 THEN cfg.F ELSE L[i - 1]
PrevX(i) == IF i = 1 THEN cfg.xF ELSE x[i - 1]

\* C1: constructing EvaporateurMultiple with xout <= xF or with n_effets < 1 raises
\* ValueError and computes nothing: no per-effect result and no m_steam is set, no
\* iteration runs and simuler returns no record.
C1_InvalidConfigRaises ==
    (pc # "idle" /\ (cfg.xout <= cfg.xF \/ cfg.n_effets < 1)) =>
        /\ ctor = "ValueError"
        /\ entry = "direct" => (pc = "raised" /\ exc = "ValueError")
        /\ IsNone(L) /\ IsNone(V) /\ IsNone(x) /\ IsNone(T) /\ IsNone(P)
        /\ IsNone(A) /\ IsNone(Q) /\ IsNone(U) /\ IsNone(m_steam)
        /\ executed = 0 /\ IsNone(res)

C1_Witness ==
    /\ entry = "direct" /\ pc = "raised" /\ ctor = "ValueError"
    /\ cfg.xout <= cfg.xF /\ cfg.n_effets >= 1

\* C2: steam pressure <= condenser pressure, a non-positive feed flow and a
\* non-positive pressure are each rejected with a configuration error: no such input
\* gets a result out of EvaporateurMultiple and simuler.
C2_InvalidPhysicalInputRejected ==
    (pc # "idle" /\ entry = "direct"
        /\ (cfg.P_steam <= cfg.P_final \/ cfg.F <= 0 \/ cfg.P_steam <= 0 \/ cfg.P_final <= 0))
    => (pc # "returned" /\ IsNone(res))

\* C3: simulation_evaporation_multi_effets called with xout <= xF or n_effets < 1
\* reports the error to its caller and returns no record.
C3_WrapperReportsConfigError ==
    (pc # "idle" /\ entry = "wrapper" /\ (cfg.xout <= cfg.xF \/ cfg.n_effets < 1))
    => (exc # "none" /\ IsNone(wres))

\* The keys of the record simuler returns that carry results.
ResultFields == {"L", "V", "x", "T", "P", "A", "Q", "U", "m_steam", "A_totale", "iterations"}

\* C4: when max_iter iterations ran and the convergence test never passed, simuler
\* does not raise, returns the last iterate, and the record has a field beyond its
\* results that flags it as not converged.
C4_NonConvergenceFlagged ==
    (pc = "returned" /\ ~IsNone(res) /\ Valid(cfg) /\ executed = max_iter /\ ~broke) =>
        /\ exc = "none"
        /\ res.V = V /\ res.L = L /\ res.Q = Q
        /\ DOMAIN res \ ResultFields # {}

C5_Counts ==
    /\ executed <= max_iter
    /\ pc = "loop" => executed < max_iter
    /\ pc \in {"after_loop", "returned"} /\ ~IsNone(V) => (1 <= executed /\ executed <= max_iter)
    /\ pc = "returned" /\ ~IsNone(res) => res.iterations = executed

\* Every step of simuler's loop executes one body and counts it; the step after the
\* loop is the return.
C5_Step ==
    /\ pc = "constructed" => (pc' = "loop" /\ executed' = 0 /\ max_iter' >= 1)
    /\ pc = "loop" => (executed' = executed + 1 /\ max_iter' = max_iter
                          /\ pc' \in {"loop", "after_loop"})
    /\ pc = "after_loop" => (pc' = "returned" /\ executed' = executed)

\* C5: simuler runs at most max_iter loop bodies: each step in the loop adds one to
\* the count of bodies executed, the count never exceeds max_iter, and the loop is
\* left for the return after between 1 and max_iter bodies; the returned
\* "iterations" is the number of bodies executed.
C5_IterationsBounded == []C5_Counts /\ [][C5_Step]_vars

C5_Witness ==
    /\ pc = "returned" /\ ~IsNone(res) /\ Valid(cfg)
    /\ res.iterations = executed /\ 1 < executed /\ executed = max_iter

\* Every effect's |V_new - V_old| / V_old of the iteration just run is below tol.
AllChangesBelowTol == \A i \in 1..Len(V) : RelChange(V[i], V_old[i]) < tol

\* C6: after an iteration that is not the last of range(max_iter), simuler has left
\* the loop if and only if the largest relative change of V over the effects is below
\* tol; the break is taken exactly then; and L and x are those recomputed from the
\* new V.
C6_EarlyExitIffConverged ==
    (Seeded /\ executed >= 1) =>
        /\ executed < max_iter => ((pc # "loop") <=> AllChangesBelowTol)
        /\ broke <=> AllChangesBelowTol
        /\ L = [i \in 1..cfg.n_effets |-> PrevL(i) - V[i]]
        /\ x = [i \in 1..cfg.n_effets |-> SoluteBalance(PrevL(i), PrevX(i), L[i])]

C6_Witness ==
    /\ pc = "after_loop" /\ broke /\ Valid(cfg)
    /\ 1 < executed /\ executed < max_iter
    /\ \A i \in 1..Len(V) : V_old[i] > 0 /\ V[i] # V_old[i]

\* F = 20000 kg/h, xF = 0.15, xout = 0.65, T_feed = 85, P_steam = 3.5 bar, N = 3,
\* simuler() with its defaults.
ReferenceScenario ==
    /\ entry = "direct"
    /\ cfg = MakeConfig(20000 * FS, 15000, 65000, 85 * TS, 350000, 3, DefaultPFinal)
    /\ max_iter = DefaultMaxIter /\ tol = DefaultTol

\* C7: the reference scenario meets the convergence tolerance within 50 iterations
\* and yields total area > 0, motive steam > 0 and an economy between 1 and 3.
C7_ReferenceScenarioConverges ==
    (pc = "returned" /\ ReferenceScenario) =>
        /\ broke /\ res.iterations <= 50
        /\ res.A_totale > 0 /\ res.m_steam > 0
        /\ 1 * EcS <= economie_vapeur(V, m_steam)
        /\ economie_vapeur(V, m_steam) <= 3 * EcS

\* C8: for every valid input the economy reported after a run, by economie_vapeur()
\* and in the wrapper's "economie", is > 0 and <= N.
C8_EconomyWithinEffects ==
    (pc = "returned" /\ Valid(cfg)) =>
        /\ entry = "direct" =>
              (0 < economie_vapeur(V, m_steam)
               /\ economie_vapeur(V, m_steam) <= cfg.n_effets * EcS)
        /\ entry = "wrapper" =>
              (0 < wres.economie /\ wres.economie <= cfg.n_effets * EcS)

\* C9: after seeding and after every iteration, along the chain from the feed the
\* liquid flow is non-increasing and the concentration non-decreasing.
C9_ChainMonotone ==
    (Seeded /\ Valid(cfg)) =>
        \A i \in 1..cfg.n_effets : L[i] <= PrevL(i) /\ x[i] >= PrevX(i)

\* C10: after seeding and after every iteration every effect satisfies
\* L_i = L_{i-1} - V_i and x_i = L_{i-1}*x_{i-1}/L_i, hence L_i*x_i = F*xF (here to
\* within 0.1 % of F*xF).
C10_SoluteConserved ==
    (Seeded /\ Valid(cfg)) =>
        \A i \in 1..cfg.n_effets :
            /\ L[i] = PrevL(i) - V[i]
            /\ L[i] # 0
            /\ x[i] = MulDiv(PrevL(i), PrevX(i), L[i])
            /\ Abs(MulDiv(L[i], x[i], XS) - MulDiv(cfg.F, cfg.xF, XS))
                  <= MulDiv(cfg.F, cfg.xF, XS) \div 1000

\* The feed of a valid run: F > 0, 0 < xF < xout < 1, N >= 1.
ValidFeed(c) == c.F > 0 /\ 0 < c.xF /\ c.xF < c.xout /\ c.xout < XS /\ c.n_effets >= 1

JustSeeded == pc = "loop" /\ executed = 0

\* C11: for valid (F, xF, xout), with P = F*xF/xout and V_total = F - P (so that
\* P + V_total = F), the seeded V is the same for every effect and is V_total/N, the
\* seeded V sum to V_total, the last effect's L is P and its x is xout (each to the
\* rounding of N divisions: 0.01 kg/h per effect, 1e-4 on the fraction).
C11_SeedingMeetsGlobalBalance ==
    (JustSeeded /\ ValidFeed(cfg)) =>
        /\ MulDiv(cfg.F, cfg.xF, cfg.xout) + (cfg.F - MulDiv(cfg.F, cfg.xF, cfg.xout)) = cfg.F
        /\ Len(V) = cfg.n_effets /\ Len(L) = cfg.n_effets /\ Len(x) = cfg.n_effets
        /\ \A i \in 1..cfg.n_effets :
              /\ V[i] = V[1]
              /\ Abs(cfg.n_effets * V[i] - (cfg.F - MulDiv(cfg.F, cfg.xF, cfg.xout)))
                    <= cfg.n_effets
        /\ Abs(SeqSum(V) - (cfg.F - MulDiv(cfg.F, cfg.xF, cfg.xout))) <= cfg.n_effets
        /\ Abs(L[cfg.n_effets] - MulDiv(cfg.F, cfg.xF, cfg.xout)) <= cfg.n_effets
        /\ Abs(x[cfg.n_effets] - cfg.xout) <= 10

C11_Witness ==
    /\ JustSeeded /\ ValidFeed(cfg) /\ cfg.n_effets = 3 /\ cfg.xout = 65000
    /\ V[1] > 0 /\ V[1] = V[3] /\ L[3] < L[1]

\* consommation_vapeur(): m_steam, or 0.0 while it is None.
consommation_vapeur(ms) == IF ms = None THEN 0 ELSE ms[1]

\* C12: the record simuler returns is a read-only copy: a write by the caller into an
\* array of the record changes neither the object's L, V, x, T, P, A, Q, U, m_steam
\* nor what economie_vapeur() and consommation_vapeur() return, and no step of a
\* later simuler() on the same object changes the record returned earlier.
C12_RecordIsFrozenCopy ==
    [][/\ (pc = "returned" /\ Valid(cfg) /\ pc' = "mutated") =>
            /\ UNCHANGED results
            /\ economie_vapeur(V', m_steam') = economie_vapeur(V, m_steam)
            /\ consommation_vapeur(m_steam') = consommation_vapeur(m_steam)
       /\ (pc \in {"returned", "mutated"} /\ pc' = "loop") => earlier' = res
       /\ (pc \in {"loop", "after_loop"} /\ ~IsNone(earlier)) => earlier' = earlier]_vars

\* C13: a second simuler() on the same object, with the same arguments, returns what
\* the first call returned, whatever the first call and the caller left in the
\* object: same iterations, same L, V, x, T, P, A, Q, U, m_steam and A_totale.
C13_SecondCallSameResult ==
    (pc = "returned" /\ entry = "direct" /\ ~IsNone(earlier)) =>
        /\ ~IsNone(first)
        /\ res = first
        /\ res.V = V /\ res.L = L /\ m_steam = <<res.m_steam>>

C13_Witness ==
    /\ pc = "returned" /\ entry = "direct" /\ ~IsNone(earlier) /\ Valid(cfg)
    /\ earlier # first /\ res = first
    /\ res.iterations > 1 /\ res.V[1] # 0

\* The rigorous solve raised inside the wrapper.
WrapperSolveRaised == pc # "idle" /\ entry = "wrapper" /\ ctor = "ValueError"

\* C14: whenever the rigorous solve raises inside simulation_evaporation_multi_effets,
\* no exception reaches the caller and the closed-form estimate is returned: one
\* detail entry per effect with V_i = V_total/N, dT 20 K and the fixed area.
C14_WrapperNeverRaises ==
    WrapperSolveRaised =>
        /\ exc = "none" /\ pc = "returned" /\ ~IsNone(wres)
        /\ wres.V_total = cfg.F - MulDiv(cfg.F, cfg.xF, cfg.xout)
        /\ Len(wres.details) = cfg.n_effets
        /\ \A i \in 1..cfg.n_effets :
              /\ wres.details[i].V_kg_h = MulDiv(wres.V_total, 1, cfg.n_effets)
              /\ wres.details[i].dT_K = FallbackDT
              /\ wres.details[i].A_m2 = FallbackAEffet

\* The keys of the record of the wrapper's rigorous path, and of its detail entries.
WrapperFields == {"S", "economie", "A_total", "V_total", "P", "details"}
DetailFields == {"effect", "V_kg_h", "dT_K", "A_m2", "T_hot_C", "T_cold_C"}

\* C15: a record returned by the wrapper's degraded path says so: it has a key, in
\* the record or in a detail entry, that a rigorous record does not have.
C15_FallbackIsAnnotated ==
    (WrapperSolveRaised /\ pc = "returned" /\ ~IsNone(wres)) =>
        \/ DOMAIN wres \ WrapperFields # {}
        \/ \E i \in 1..Len(wres.details) : DOMAIN wres.details[i] \ DetailFields # {}

CrDone == crpc = "done"
HistColumns == {"t", "T", "S", "C", "Cs", "Lmean", "CV"}
LastOf(s) == s[Len(s)]

\* C16: the history has one record per step of dt from t = 0: the first time is 0,
\* consecutive times differ by exactly dt, no time is beyond the duration, the time
\* after the last record would be beyond it, and the seven columns have the same
\* number of records.
C16_FixedTimeStep ==
    CrDone =>
        /\ DOMAIN hist = HistColumns
        /\ \A c \in HistColumns : Len(hist[c]) = Len(hist.t)
        /\ Len(hist.t) >= 1 /\ hist.t[1] = 0
        /\ \A k \in 1..(Len(hist.t) - 1) : hist.t[k + 1] - hist.t[k] = crargs.dt * TmS
        /\ \A k \in 1..Len(hist.t) : hist.t[k] <= crargs.duree_totale * TmS
        /\ LastOf(hist.t) + crargs.dt * TmS > crargs.duree_totale * TmS

\* M = 5000, C_init = 65, T_init = 70, duration 14400 s, dt = 60 s, linear profile.
CrReference ==
    /\ crargs.M_batch = 5000 /\ crargs.C_init = 65 * KS /\ crargs.T_init = 70 * TS
    /\ crargs.duree_totale = 14400 /\ crargs.dt = 60 /\ crargs.profil = "lineaire"

\* The temperature column starts at T_init and is the straight line
\* T_init - (T_init - 35)*t/duration at every record's time.
LinearRampFromTInit ==
    /\ hist.T[1] = crargs.T_init
    /\ \A k \in 1..Len(hist.T) :
          hist.T[k] = crargs.T_init
              - MulDiv(crargs.T_init - 35 * TS, hist.t[k], crargs.duree_totale * TmS)

ReferenceSizeInRange ==
    CrReference => (100 * (LmS \div 1000000) <= LastOf(hist.Lmean)
                    /\ LastOf(hist.Lmean) <= 600 * (LmS \div 1000000))

\* C17, as stated: with the linear profile, for every duration > 0 and dt > 0, T starts
\* at T_init, ramps linearly and the last record is at 35 degC; in the reference
\* scenario the final mean size is between 100 and 600 micrometres.
C17_LinearEndsAt35Always ==
    (CrDone /\ crargs.profil = "lineaire") =>
        /\ LinearRampFromTInit
        /\ LastOf(hist.T) = 35 * TS
        /\ ReferenceSizeInRange

\* C17: with the linear profile T starts at T_init and ramps linearly in t; when
\* dt <= duration the last record is at 35 degC, and when dt > duration the only
\* record is the one at t = 0, at T_init; in the reference scenario the final mean
\* size is between 100 and 600 micrometres.
C17_LinearEndsAt35 ==
    (CrDone /\ crargs.profil = "lineaire") =>
        /\ LinearRampFromTInit
        /\ crargs.dt <= crargs.duree_totale => LastOf(hist.T) = 35 * TS
        /\ crargs.dt > crargs.duree_totale =>
              (Len(hist.T) = 1 /\ LastOf(hist.T) = crargs.T_init)
        /\ ReferenceSizeInRange

C17_Witness ==
    /\ CrDone /\ CrReference
    /\ Len(hist.T) = 241 /\ hist.T[1] = 70 * TS /\ hist.T[121] = 52500
    /\ LastOf(hist.T) = 35 * TS /\ LastOf(hist.t) = 14400 * TmS
    /\ LastOf(hist.Lmean) = LmeanLineaire

\* 35 + (T_init - 35)*exp(-0.003*t), t in seconds.
ExpoRelaxation(T_init, t) ==
    35 * TS + MulDiv(T_init - 35 * TS, Exp(-MulDiv(3 * t, LS, 1000 * TmS)), LS)

\* C18: with the exponential profile T is 35 + (T_init - 35)*exp(-0.003*t) (to
\* 0.05 degC); with the constant-supersaturation profile T never goes below 35 degC;
\* and with either, over three records or more from T_init above 35 degC, the
\* temperature column is not the linear ramp of the same inputs.
C18_ProfileShapesT ==
    (CrDone /\ Len(hist.T) >= 3 /\ crargs.T_init > 35 * TS) =>
        /\ crargs.profil = "expo" =>
              \A k \in 1..Len(hist.T) :
                  Abs(hist.T[k] - ExpoRelaxation(crargs.T_init, hist.t[k])) <= 50
        /\ crargs.profil = "S_const" => \A k \in 1..Len(hist.T) : hist.T[k] >= 35 * TS
        /\ crargs.profil \in {"expo", "S_const"} => ~LinearRampFromTInit

\* C19: in every record S = max((C - C*)/C*, 0) (to 1e-4) and C* is the cubic
\* solubility at the record's temperature.
C19_SupersaturationConsistent ==
    CrDone =>
        \A k \in 1..Len(hist.t) :
            /\ hist.Cs[k] = solubilite(hist.T[k])
            /\ Abs(hist.S[k] - Max(MulDiv(hist.C[k] - hist.Cs[k], SsS, hist.Cs[k]), 0)) <= 10

\* C20: in every record C >= C*, the first record's C is C_init, and C does not
\* increase from one record to the next.
C20_ConcentrationDepletes ==
    CrDone =>
        /\ \A k \in 1..Len(hist.C) : hist.C[k] >= hist.Cs[k]
        /\ hist.C[1] = crargs.C_init
        /\ \A k \in 1..(Len(hist.C) - 1) : hist.C[k + 1] <= hist.C[k]

\* C21: the number density the crystallizer returns is never negative, for every
\* input and every profile selector.
C21_DensityNonNegative ==
    crpc = "done" => \A k \in DOMAIN n_dist : n_dist[k] >= 0
\* A returned density on the full grid with its peak and an empty tail.
C21_Witness ==
    /\ crpc = "done" /\ crargs.profil = "expo"
    /\ Len(n_dist) = LGridN
    /\ \E k \in DOMAIN n_dist : n_dist[k] = NdPeak
    /\ \E k \in DOMAIN n_dist : n_dist[k] = 0

\* The L and x the last pass of the loop started from: the seeding in the first
\* pass, afterwards the chain rebuilt from the V the pass saved in V_old.
PreFlows == IF executed = 1 THEN SeededFlows ELSE Propagate(cfg, V_old)
InOrAfterPass == pc \in {"loop", "after_loop", "returned"} /\ executed >= 1

\* The fallback the specification documents: 100 + 43*ln(P[bar]).
DocumentedTsat(Pbar) == 100 * TS + MulDiv(43 * TS, Ln(Max(Pbar, PS \div 100)), LS)

\* C22: with the precise backend unavailable, the saturation temperature used for a
\* pressure P is 100 + 43*ln(P): every effect's boiling temperature is that value
\* plus the boiling point elevation at it.
C22_FallbackIsDocumented ==
    (InOrAfterPass /\ Valid(cfg)) =>
        \A i \in 1..cfg.n_effets :
            T[i] = BoilingT(DocumentedTsat(P[i]), PreFlows.x[i])

\* The pressures simuler computed, for a steam pressure above the condenser's.
PressuresSet == Seeded /\ cfg.n_effets >= 1 /\ cfg.P_steam > cfg.P_final
\* ln(P_steam) + (i/N)*(ln(P_final) - ln(P_steam))
LogPoint(i) ==
    Ln(cfg.P_steam) + MulDiv(i, Ln(cfg.P_final) - Ln(cfg.P_steam), cfg.n_effets)
\* Rounding of one exp and one log at scale LS, on ln(P) and on P.
LnTol == LS \div 10^4
PTol == 2 * (PS \div 10^5)
OnLogLine == \A i \in 1..cfg.n_effets : Abs(Ln(P[i]) - LogPoint(i)) <= LnTol
StrictlyDecreasing ==
    /\ P[1] < cfg.P_steam
    /\ \A i \in 1..(cfg.n_effets - 1) : P[i] > P[i + 1]

\* C23 as stated: effect i takes point i of the log-linear interpolation, the
\* pressures strictly decrease along the chain, and every effect pressure lies
\* strictly between the steam pressure and the final condenser pressure.
C23_PressuresInterior ==
    PressuresSet =>
        /\ OnLogLine /\ StrictlyDecreasing
        /\ \A i \in 1..cfg.n_effets : cfg.P_final < P[i] /\ P[i] < cfg.P_steam

\* C23: effect i takes point i of the log-linear interpolation over N+1 points, the
\* pressures strictly decrease along the chain, effects 1..N-1 lie strictly between
\* the steam pressure and the condenser pressure, and effect N, point N, is at the
\* condenser pressure itself.
C23_PressuresLogLinear ==
    PressuresSet =>
        /\ OnLogLine /\ StrictlyDecreasing
        /\ \A i \in 1..(cfg.n_effets - 1) : cfg.P_final < P[i] /\ P[i] < cfg.P_steam
        /\ Abs(P[cfg.n_effets] - cfg.P_final) <= PTol
C23_Witness ==
    /\ PressuresSet /\ cfg.n_effets = MaxEffets
    /\ P[1] < cfg.P_steam /\ P[1] > P[2] /\ P[MaxEffets] <= cfg.P_final

\* dT_chauffe of effect i as line 258 computes it, from the state after the pass.
RawDT(i) ==
    (IF i = 1 THEN Tsat_water_from_Pbar(cfg.P_steam) + cfg.surchauffe ELSE T[i - 1]) - T[i]

\* C24: in every pass and for every effect, the temperature difference the area is
\* computed with is floored at 1 K: the area is Q*1000/(U_eff*max(dT, 1 K)).
C24_DrivingDTFlooredAt1K ==
    (InOrAfterPass /\ Valid(cfg)) =>
        \A i \in 1..cfg.n_effets :
            A[i] = AreaA(cfg, Q[i], U[i], Max(RawDT(i), 1 * TS))

\* C25: coefficient_U_effet gives 2500, 2200, 1800 for three effects; for any other
\* N >= 2 it gives 2500 for effect 1, 1800 for effect N and 2500 - 700*(i-1)/(N-1) in
\* between (to the rounding of 0.1 W/m2/K); so U strictly decreases along the chain,
\* and the fouling-corrected 1/(1/U + R_f) never exceeds U, for the configured R_f and
\* for R_f = 0.
C25_UProfile ==
    InOrAfterPass =>
        /\ cfg.n_effets = 3 => U = <<2500 * US, 2200 * US, 1800 * US>>
        /\ (cfg.n_effets >= 2 /\ cfg.n_effets # 3) =>
              /\ U[1] = 2500 * US /\ U[cfg.n_effets] = 1800 * US
              /\ \A i \in 2..(cfg.n_effets - 1) :
                    2 * Abs(U[i] * (cfg.n_effets - 1)
                            - (2500 * US * (cfg.n_effets - 1) - 700 * US * (i - 1)))
                        <= cfg.n_effets - 1
        /\ \A i, j \in 1..cfg.n_effets : i < j => U[i] > U[j]
        /\ \A i \in 1..cfg.n_effets :
              /\ UEff(cfg, U[i]) <= U[i]
              /\ UEff([cfg EXCEPT !.R_f = 0], U[i]) <= U[i]
\* A chain of four effects, the interpolated values in the middle.
C25_Witness ==
    /\ InOrAfterPass /\ cfg.n_effets = 4
    /\ U[1] = 2500 * US /\ U[4] = 1800 * US /\ U[2] > U[3] /\ U[3] > U[4]
    /\ UEff(cfg, U[2]) < U[2]

WrapperReturned == entry = "wrapper" /\ pc = "returned" /\ ~IsNone(wres)
DetailsV == [i \in 1..Len(wres.details) |-> wres.details[i].V_kg_h]
DetailsA == [i \in 1..Len(wres.details) |-> wres.details[i].A_m2]

\* C26: in every record the wrapper returns, on either path, P + V_total = F,
\* V_total is the sum of the details' V_kg_h, A_total is the sum of the details' A_m2
\* (each to the rounding of one division per effect), and details has exactly
\* n_effets entries.
C26_WrapperRecordBalances ==
    WrapperReturned =>
        /\ Len(wres.details) = cfg.n_effets
        /\ Abs(wres.P + wres.V_total - cfg.F) <= cfg.n_effets
        /\ Abs(wres.V_total - SeqSum(DetailsV)) <= cfg.n_effets
        /\ Abs(wres.A_total - SeqSum(DetailsA)) <= cfg.n_effets

\* Q_sensible of effect i in the last pass (line 233), from the L and x the pass
\* started with and the temperatures it computed.
PassQSensible(i) ==
    QSensible(InletL(cfg, PreFlows.L, i),
              Cp_solution_saccharose(InletX(cfg, PreFlows.x, i), InletT(cfg, T, i)),
              Cp_solution_saccharose(PreFlows.x[i], T[i]),
              T[i] - InletT(cfg, T, i))
\* (1 + pertes) * (V_old[i] + 3600 * Q_sensible / lambda_i)
OnePlus(u, pertes) == u + MulDiv(u, pertes, FrS)
LossyUpdate(i) ==
    OnePlus(V_old[i] + MulDiv(PassQSensible(i), 3600 * HS, latent_heat_from_Pbar(P[i])),
            cfg.pertes)
\* Rounding of the kW duty (0.01 kW) carried into a flow, in kg/h at scale FS.
VTol == 5 * (FS \div 10^2)
Heated(i) == V_old[i] > 0 /\ PassQSensible(i) >= 0

\* C27: each pass replaces V_i by (1 + pertes)*(V_old_i + 3600*Q_sensible_i/lambda_i),
\* Q_sensible taken from the state the pass started with; so for V_old_i > 0 and
\* Q_sensible_i >= 0 the flow grows by at least the factor 1 + pertes, and when
\* pertes >= tol the convergence test does not pass in that iteration.
C27_LossFactorBlocksConvergence ==
    InOrAfterPass =>
        /\ \A i \in 1..cfg.n_effets :
              /\ Abs(V[i] - LossyUpdate(i)) <= VTol
              /\ Heated(i) => V[i] - V_old[i] + VTol >= MulDiv(V_old[i], cfg.pertes, FrS)
        /\ ((\E i \in 1..cfg.n_effets : Heated(i)) /\ cfg.pertes * (ES \div FrS) >= tol)
              => ~broke /\ erreur >= tol
\* A pass of a valid two-effect run whose first effect is heated, under the default
\* tolerance: the flow grew and the loop did not stop.
C27_Witness ==
    /\ InOrAfterPass /\ Valid(cfg) /\ cfg.n_effets = 2
    /\ Heated(1) /\ PassQSensible(1) > 0 /\ V[1] > V_old[1]
    /\ tol = DefaultTol /\ ~broke /\ executed >= 2

SimulerReturned == pc = "returned" /\ entry = "direct" /\ ~IsNone(res)
\* The energy balances of the state the last pass started with.
PassBalances ==
    calculer_bilans_energetiques(cfg, res.P, res.T, PreFlows.L, V_old, PreFlows.x)

\* C28: in every record simuler returns, V_i*lambda(P_i) = 3600*Q_i for every effect
\* and m_steam*lambda(P_steam) = 3600*Q_1 (to 0.01 kW), and the returned T, Q and A
\* are those computed from the L, V, x the last pass started with, before it
\* updated them.
C28_RecordDutyMatchesVapor ==
    SimulerReturned =>
        /\ \A i \in 1..cfg.n_effets :
              Abs(QEvap(res.V[i], latent_heat_from_Pbar(res.P[i])) - res.Q[i]) <= 1
        /\ Abs(QEvap(res.m_steam, latent_heat_from_Pbar(cfg.P_steam)) - res.Q[1]) <= 1
        /\ res.T = calculer_temperatures(cfg, res.P, PreFlows.x)
        /\ res.Q = PassBalances.Q /\ res.A = PassBalances.A
\* A returned record whose temperatures are not those of the x it carries.
C28_Witness ==
    /\ SimulerReturned /\ Valid(cfg) /\ cfg.n_effets = 2
    /\ res.V # V_old
    /\ res.T # calculer_temperatures(cfg, res.P, x)

\* C29: the concentration update never divides by a non-positive L: where L_i <= 0,
\* x_i is the inlet concentration x_(i-1) unchanged; where L_i > 0 it is
\* L_(i-1)*x_(i-1)/L_i; the solver raises nothing, and the non-positive L_i is the
\* inlet of the next effect, L_(i+1) = L_i - V_(i+1).
C29_NonPositiveLCopiesInlet ==
    Seeded =>
        /\ entry = "direct" => exc = "none"
        /\ \A i \in 1..cfg.n_effets :
              /\ L[i] = PrevL(i) - V[i]
              /\ L[i] <= 0 => x[i] = PrevX(i)
              /\ L[i] > 0 => x[i] = MulDiv(PrevL(i), PrevX(i), L[i])
\* A pass of a run with feed that started from a negative L in some effect, the
\* concentration there copied from its inlet, and completed.
C29_Witness ==
    /\ InOrAfterPass /\ executed >= 2 /\ cfg.F > 0 /\ exc = "none"
    /\ \E i \in 1..cfg.n_effets :
          /\ PreFlows.L[i] < 0
          /\ PreFlows.x[i] = InletX(cfg, PreFlows.x, i)
          /\ i < cfg.n_effets => PreFlows.L[i + 1] = PreFlows.L[i] - V_old[i + 1]

\* C30: for a run with at least two time records (duree_totale >= dt) the final mean
\* size and the final CV are fixed by the profile selector alone: 450e-6 m and 0.225
\* for "lineaire", 435e-6 m and 0.250 for "expo", 465e-6 m and 0.200 for any other
\* name, recognised or not, whatever the batch mass, initial concentration, initial
\* temperature, duration and time step; no profile name is rejected.
C30_FinalSizeByProfileOnly ==
    (CrDone /\ crargs.duree_totale >= crargs.dt) =>
        /\ Len(hist.Lmean) >= 2 /\ Len(hist.CV) = Len(hist.Lmean)
        /\ crargs.profil = "lineaire" =>
              LastOf(hist.Lmean) = LmeanLineaire /\ LastOf(hist.CV) = CVLineaire
        /\ crargs.profil = "expo" =>
              LastOf(hist.Lmean) = LmeanExpo /\ LastOf(hist.CV) = CVExpo
        /\ crargs.profil \notin {"lineaire", "expo"} =>
              LastOf(hist.Lmean) = LmeanSConst /\ LastOf(hist.CV) = CVSConst
\* An unrecognised profile name on a batch other than the reference one.
C30_Witness ==
    /\ CrDone /\ crargs.profil = "autre" /\ crargs.M_batch = 1000
    /\ crargs.T_init = 50 * TS /\ crargs.dt = 60 /\ crargs.duree_totale = 1000
    /\ LastOf(hist.Lmean) = LmeanSConst /\ LastOf(hist.CV) = CVSConst

====
